---- MODULE Spec2Model ----
(***************************************************************************)
(* Model of icon-preview.py: the icon indexer (get_icons), the group       *)
(* selector (get_groups), the two Jinja2 filters (split_by,                *)
(* icon_group_order) and the CLI driver (main).                            *)
(*                                                                         *)
(* A Python str is a sequence of one-character strings, so that split,     *)
(* rsplit, lower, endswith and the lexicographic order are computed the    *)
(* way the interpreter computes them.  Group names are atomic strings.     *)
(***************************************************************************)
EXTENDS Integers, Sequences, FiniteSets, TLC

VARIABLES
    files,        \* what os.walk yields: sequence of [root, filename]
    result_dir,   \* second argument of get_icons
    gi_i,         \* get_icons: number of files already visited
    gi_pc,        \* get_icons: "idle", "loop", "returned", "raised"
    icons,        \* the dict built by get_icons: group -> sequence of IconDetails
    argv,         \* main: command line and file system as found at start
    flags,        \* main: the argparse.Namespace
    groups,       \* main: result of get_groups
    pc,           \* main: position
    exc,          \* main: "none", "caught", "unhandled"
    exitStatus,   \* main: process exit status, -1 while running
    fsOut,        \* main: [dir, file] what exists of the output
    sb_entries,   \* split_by: the entries argument
    sb_length,    \* split_by: the length argument
    sb_pos,       \* split_by: number of items consumed from iter(entries)
    sb_piece,     \* split_by: the local piece
    sb_out,       \* split_by: the pieces yielded so far
    sb_pc,        \* split_by: "idle", "start", "loop", "done"
    og_items,     \* icon_group_order: the items argument
    og_result,    \* icon_group_order: [raised, items]
    og_pc         \* icon_group_order: "idle", "call", "done"

iconVars  == <<files, result_dir, gi_i, gi_pc, icons>>
mainVars  == <<argv, flags, groups, pc, exc, exitStatus, fsOut>>
splitVars == <<sb_entries, sb_length, sb_pos, sb_piece, sb_out, sb_pc>>
orderVars == <<og_items, og_result, og_pc>>
vars == <<iconVars, mainVars, splitVars, orderVars>>

None == "None"

(***************************************************************************)
(* Bounds                                                                  *)
(***************************************************************************)
MaxFiles  == 3   \* files in a scanned tree
MaxLen    == 4   \* length of a sequence given to split_by
MaxChunk  == 3   \* largest chunk length given to split_by
MaxGroups == 3   \* length of a sequence given to icon_group_order

(***************************************************************************)
(* Python str                                                              *)
(***************************************************************************)
Alphabet ==
    {"-", ".", "/", "G", "S", "V",
     "a", "b", "c", "d", "e", "g", "i", "k", "l", "m", "o", "r", "s", "t",
     "v", "x"}

\* ord(c)
Ord(c) ==
    CASE c = "-" -> 45  [] c = "." -> 46  [] c = "/" -> 47
      [] c = "G" -> 71  [] c = "S" -> 83  [] c = "V" -> 86
      [] c = "a" -> 97  [] c = "b" -> 98  [] c = "c" -> 99  [] c = "d" -> 100
      [] c = "e" -> 101 [] c = "g" -> 103 [] c = "i" -> 105 [] c = "k" -> 107
      [] c = "l" -> 108 [] c = "m" -> 109 [] c = "o" -> 111 [] c = "r" -> 114
      [] c = "s" -> 115 [] c = "t" -> 116 [] c = "v" -> 118 [] c = "x" -> 120

Chr(n) == CHOOSE c \in Alphabet : Ord(c) = n

\* str.lower()
lower(s) ==
    [i \in 1..Len(s) |-> IF Ord(s[i]) \in 65..90 THEN Chr(Ord(s[i]) + 32) ELSE s[i]]

\* str.endswith(suffix)
endswith(s, suffix) ==
    /\ Len(s) >= Len(suffix)
    /\ SubSeq(s, Len(s) - Len(suffix) + 1, Len(s)) = suffix

Positions(s, sep) == {i \in 1..Len(s) : s[i] = sep}
MinOf(S) == CHOOSE x \in S : \A y \in S : x <= y
MaxOf(S) == CHOOSE x \in S : \A y \in S : x >= y

\* str.split(sep) for a one-character sep: the list of all parts
RECURSIVE split(_, _)
split(s, sep) ==
    IF Positions(s, sep) = {}
    THEN <<s>>
    ELSE LET i == MinOf(Positions(s, sep))
         IN  <<SubSeq(s, 1, i - 1)>> \o split(SubSeq(s, i + 1, Len(s)), sep)

\* str.rsplit(sep, 1)
rsplit1(s, sep) ==
    IF Positions(s, sep) = {}
    THEN <<s>>
    ELSE LET i == MaxOf(Positions(s, sep))
         IN  <<SubSeq(s, 1, i - 1), SubSeq(s, i + 1, Len(s))>>

\* sep.join(parts)
RECURSIVE joinstr(_, _)
joinstr(parts, sep) ==
    IF Len(parts) = 0 THEN <<>>
    ELSE IF Len(parts) = 1 THEN parts[1]
    ELSE parts[1] \o <<sep>> \o joinstr(Tail(parts), sep)

\* a < b on str: code point by code point, a proper prefix is smaller
StrLess(a, b) ==
    \E k \in 1..(Len(b)) :
        /\ k <= Len(a) + 1
        /\ \A j \in 1..(k - 1) : a[j] = b[j]
        /\ \/ k = Len(a) + 1
           \/ (k <= Len(a) /\ Ord(a[k]) < Ord(b[k]))

(***************************************************************************)
(* os.path                                                                 *)
(***************************************************************************)
\* os.path.join(root, filename), filename relative, root without trailing "/"
path_join(root, filename) == root \o <<"/">> \o filename

\* os.path.basename
basename(p) == LET parts == rsplit1(p, "/") IN parts[Len(parts)]

\* os.path.dirname of an absolute normalised path
dirname(p) ==
    LET parts == rsplit1(p, "/")
    IN  IF Len(parts) = 1 THEN <<>>
        ELSE IF parts[1] = <<>> THEN <<"/">> ELSE parts[1]

NonEmptyParts(p) == SelectSeq(split(p, "/"), LAMBDA x : x # <<>>)

CommonLen(a, b) ==
    MaxOf({n \in 0..Len(a) : n <= Len(b) /\ \A j \in 1..n : a[j] = b[j]})

\* os.path.relpath(path, start), both absolute and normalised
relpath(path, start) ==
    LET start_list == NonEmptyParts(start)
        path_list  == NonEmptyParts(path)
        i          == CommonLen(start_list, path_list)
        rel_list   == [k \in 1..(Len(start_list) - i) |-> <<".", ".">>]
                      \o SubSeq(path_list, i + 1, Len(path_list))
    IN  IF Len(rel_list) = 0 THEN <<".">> ELSE joinstr(rel_list, "/")

(***************************************************************************)
(* Module constants                                                        *)
(***************************************************************************)
DEFAULT_ELEMENTS_PER_ROW == 3

ICON_GROUP_ORDER == <<"small", "medium", "large", "cover", "notification">>

\* The dict literal, as its items in insertion order.
ICON_GROUP_MARKS ==
    << <<(<<"l">>), "large">>,
       <<(<<"s">>), "small">>,
       <<(<<"m">>), "medium">>,
       <<(<<"c", "o", "v", "e", "r">>), "cover">>,
       <<(<<"l", "o", "c", "k">>), "notification">> >>

\* ICON_GROUP_MARKS.get(key, default)
marks_get(key, default) ==
    IF \E i \in 1..Len(ICON_GROUP_MARKS) : ICON_GROUP_MARKS[i][1] = key
    THEN ICON_GROUP_MARKS[CHOOSE i \in 1..Len(ICON_GROUP_MARKS) :
                              ICON_GROUP_MARKS[i][1] = key][2]
    ELSE default

\* list(ICON_GROUP_MARKS.values())
marks_values == [i \in 1..Len(ICON_GROUP_MARKS) |-> ICON_GROUP_MARKS[i][2]]

IconDetails(name, group, rel) == [name |-> name, group |-> group, relpath |-> rel]

(***************************************************************************)
(* get_icons                                                               *)
(***************************************************************************)
\* fname.lower().endswith('.svg')
is_svg(fname) == endswith(lower(fname), <<".", "s", "v", "g">>)

\* os.path.basename(fname).rsplit('.', 1)[0]
icon_name_of(fname) == rsplit1(basename(fname), ".")[1]

\* icon_name.split('-')[1] raises IndexError when the list has one element
token_raises(icon_name) == Len(split(icon_name, "-")) < 2
\* Variant that takes the last part instead of the second.
token_of_last(icon_name) ==
    LET parts == split(icon_name, "-") IN parts[Len(parts)]

token_of(icon_name) == split(icon_name, "-")[2]

\* icons[details.group].append(details), creating the list when absent
dict_append(d, details) ==
    IF details.group \in DOMAIN d
    THEN [d EXCEPT ![details.group] = Append(@, details)]
    ELSE [g \in DOMAIN d \cup {details.group} |->
             IF g = details.group THEN <<details>> ELSE d[g]]

\* body of the inner loop for one file: [raised, icons]
visit_file(d, file, rdir) ==
    LET fname == path_join(file.root, file.filename)
    IN  IF ~is_svg(fname)
        THEN [raised |-> FALSE, icons |-> d]
        ELSE LET icon_name == icon_name_of(fname)
             IN  IF token_raises(icon_name)
                 THEN [raised |-> TRUE, icons |-> d]
                 ELSE [raised |-> FALSE,
                       icons  |-> dict_append(d,
                                     IconDetails(icon_name,
                                         marks_get(token_of(icon_name), "unknown"),
                                         relpath(fname, rdir)))]

\* sorted(seq, reverse=False, key=lambda item: item.name) is stable: an item
\* goes after every item already placed whose name is not greater.
\* Variant that places an item before the items of equal name.
sort_insert_unstable(sorted, x) ==
    LET before == {j \in 1..Len(sorted) : StrLess(sorted[j].name, x.name)}
        k      == IF before = {} THEN 0 ELSE MaxOf(before)
    IN  SubSeq(sorted, 1, k) \o <<x>> \o SubSeq(sorted, k + 1, Len(sorted))

sort_insert(sorted, x) ==
    LET before == {j \in 1..Len(sorted) : ~StrLess(x.name, sorted[j].name)}
        k      == IF before = {} THEN 0 ELSE MaxOf(before)
    IN  SubSeq(sorted, 1, k) \o <<x>> \o SubSeq(sorted, k + 1, Len(sorted))

RECURSIVE sorted_by_name(_)
sorted_by_name(seq) ==
    IF Len(seq) = 0 THEN <<>>
    ELSE sort_insert(sorted_by_name(SubSeq(seq, 1, Len(seq) - 1)), seq[Len(seq)])

\* the final loop over icons.keys()
sort_groups(d) == [g \in DOMAIN d |-> sorted_by_name(d[g])]

EmptyDict == [g \in {} |-> <<>>]

\* the two nested loops, from the file at position i + 1 on
RECURSIVE walk_from(_, _, _, _)
walk_from(d, fs, i, rdir) ==
    IF i >= Len(fs) THEN [raised |-> FALSE, icons |-> d]
    ELSE LET r == visit_file(d, fs[i + 1], rdir)
         IN  IF r.raised THEN r ELSE walk_from(r.icons, fs, i + 1, rdir)

\* get_icons(icons_path, result_dir) over what os.walk(icons_path) yields
get_icons(fs, rdir) ==
    LET r == walk_from(EmptyDict, fs, 0, rdir)
    IN  IF r.raised THEN r ELSE [raised |-> FALSE, icons |-> sort_groups(r.icons)]

(***************************************************************************)
(* Scanned trees                                                           *)
(***************************************************************************)
Ext_svg == <<".", "s", "v", "g">>
Ext_SVG == <<".", "S", "V", "G">>
Ext_txt == <<".", "t", "x", "t">>
Ext_nodot == <<"s", "v", "g">>

IconsPath    == <<"/", "i">>
SubPath      == <<"/", "i", "/", "d">>
TemplatePath == <<"/", "t", "/", "p">>
ResultPath   == <<"/", "o", "/", "r">>

File(root, filename) == [root |-> root, filename |-> filename]

\* os.walk(topdown=True) yields a directory's files before its
\* subdirectories' files, every path once; the order inside a directory is
\* the order of os.scandir, which is arbitrary.
IsWalk(fs) ==
    /\ \A i, j \in 1..Len(fs) : i # j => fs[i] # fs[j]
    /\ \A i, j \in 1..Len(fs) :
          (i < j /\ fs[i].root # fs[j].root) => Len(fs[i].root) < Len(fs[j].root)

SeqsUpTo(S, n) == UNION {[1..k -> S] : k \in 0..n}

\* file names of the trees get_icons is run on
IconFileNames ==
    {<<"a", "-", "s">> \o Ext_svg,
     <<"b", "-", "s">> \o Ext_svg,
     <<"a", "-", "s">> \o Ext_SVG,
     <<"a", "-", "m">> \o Ext_svg,
     <<"a", "-", "x">> \o Ext_svg,
     <<"a">> \o Ext_svg,
     <<"a", "-", "s">> \o Ext_txt}

IconFiles == {File(r, n) : r \in {IconsPath, SubPath}, n \in IconFileNames}

\* base names for the classifier: with and without delimiter, with known
\* and unknown tokens, with text after the token
Tokens ==
    {<<"s">>, <<"m">>, <<"l">>, <<"c", "o", "v", "e", "r">>,
     <<"l", "o", "c", "k">>, <<"x">>, <<"S">>, <<>>}
Tails == {<<>>, <<"-", "x">>, <<"-", "s">>, <<"x">>, <<".", "x">>}
Prefixes == {<<"a">>, <<>>}
BaseNames ==
    {p \o <<"-">> \o t \o u : p \in Prefixes, t \in Tokens, u \in Tails}
        \cup Prefixes
ClassifyFiles ==
    {File(IconsPath, b \o e) : b \in BaseNames,
                               e \in {Ext_svg, Ext_SVG, Ext_txt, Ext_nodot}}

(***************************************************************************)
(* get_icons, one file per step                                            *)
(***************************************************************************)
GetIconsVisit ==
    /\ gi_pc = "loop"
    /\ gi_i < Len(files)
    /\ LET r == visit_file(icons, files[gi_i + 1], result_dir)
       IN  IF r.raised
           THEN gi_pc' = "raised" /\ UNCHANGED <<icons, gi_i>>
           ELSE icons' = r.icons /\ gi_i' = gi_i + 1 /\ UNCHANGED gi_pc
    /\ UNCHANGED <<files, result_dir, mainVars, splitVars, orderVars>>

GetIconsSort ==
    /\ gi_pc = "loop"
    /\ gi_i = Len(files)
    /\ icons' = sort_groups(icons)
    /\ gi_pc' = "returned"
    /\ UNCHANGED <<files, result_dir, gi_i, mainVars, splitVars, orderVars>>

IdleIcons ==
    /\ files = <<>> /\ result_dir = <<>> /\ gi_i = 0 /\ gi_pc = "idle"
    /\ icons = EmptyDict
IdleMain ==
    /\ argv = None /\ flags = None /\ groups = None /\ pc = "idle"
    /\ exc = "none" /\ exitStatus = -1 /\ fsOut = None
IdleSplit ==
    /\ sb_entries = <<>> /\ sb_length = 0 /\ sb_pos = 0 /\ sb_piece = <<>>
    /\ sb_out = <<>> /\ sb_pc = "idle"
IdleOrder ==
    /\ og_items = <<>> /\ og_result = None /\ og_pc = "idle"

StartIcons(fs) ==
    /\ files = fs /\ result_dir = dirname(ResultPath)
    /\ gi_i = 0 /\ gi_pc = "loop" /\ icons = EmptyDict

InitIcons ==
    /\ \E fs \in SeqsUpTo(IconFiles, MaxFiles) : IsWalk(fs) /\ StartIcons(fs)
    /\ IdleMain /\ IdleSplit /\ IdleOrder

InitClassify ==
    /\ \E f \in ClassifyFiles : StartIcons(<<f>>)
    /\ IdleMain /\ IdleSplit /\ IdleOrder

NextIcons == GetIconsVisit \/ GetIconsSort

SpecIcons == InitIcons /\ [][NextIcons]_vars
SpecClassify == InitClassify /\ [][NextIcons]_vars

(***************************************************************************)
(* get_groups                                                              *)
(***************************************************************************)
\* Variant that answers the default with ICON_GROUP_ORDER.
get_groups_canonical(fl) ==
    LET suggested == SelectSeq(<<"small", "medium", "large", "cover">>,
                               LAMBDA g : fl[g])
    IN  IF Len(suggested) # 0 THEN suggested ELSE ICON_GROUP_ORDER

\* Variant that walks the values of ICON_GROUP_MARKS to collect the flags.
get_groups_table_order(fl) ==
    LET suggested == SelectSeq(marks_values,
                               LAMBDA g : g # "notification" /\ fl[g])
    IN  IF Len(suggested) # 0 THEN suggested ELSE marks_values

get_groups(fl) ==
    LET suggested == SelectSeq(<<"small", "medium", "large", "cover">>,
                               LAMBDA g : fl[g])
    IN  IF Len(suggested) # 0 THEN suggested ELSE marks_values

(***************************************************************************)
(* main                                                                    *)
(***************************************************************************)
EX_OK      == 0
EX_DATAERR == 65
EXIT_FAILURE == 1

\* os.path.abspath(os.path.expanduser(path)); the command lines of the model
\* give absolute normalised paths, which both functions return unchanged
fs_path(path) == path

\* Variant without the os.path.exists test.
fs_path_unchecked(path, existing) == fs_path(path)

fs_path_exists(path, existing) ==
    LET _path == fs_path(path) IN IF _path \in existing THEN _path ELSE None

Switches == [small : BOOLEAN, medium : BOOLEAN, large : BOOLEAN, cover : BOOLEAN]

S(n) == <<"a", "-">> \o n \o Ext_svg
MainTrees ==
    { <<>>,
      <<File(IconsPath, S(<<"s">>)), File(IconsPath, S(<<"m">>)),
        File(IconsPath, S(<<"l">>)), File(IconsPath, S(<<"c", "o", "v", "e", "r">>)),
        File(IconsPath, S(<<"l", "o", "c", "k">>)),
        File(IconsPath, <<"a">> \o Ext_txt)>>,
      <<File(IconsPath, S(<<"x">>)), File(SubPath, S(<<"s">>))>>,
      <<File(IconsPath, S(<<"s">>)), File(IconsPath, <<"a">> \o Ext_svg)>> }

\* sys.exit(status)
Exit(status) ==
    /\ pc' = "exit"
    /\ exitStatus' = status

\* an exception that reaches the except clause of main: logged, sys.exit(1)
Caught ==
    /\ exc' = "caught"
    /\ Exit(EXIT_FAILURE)

\* an exception raised outside the try statement: the interpreter prints the
\* traceback and ends the process with status 1
Unhandled ==
    /\ exc' = "unhandled"
    /\ Exit(EXIT_FAILURE)

ParseArgs ==
    /\ pc = "parse_args"
    /\ flags' = [icons    |-> fs_path_exists(argv.icons, argv.existing),
                 template |-> fs_path_exists(argv.template, argv.existing),
                 result   |-> fs_path(argv.result),
                 small    |-> argv.switches.small,
                 medium   |-> argv.switches.medium,
                 large    |-> argv.switches.large,
                 cover    |-> argv.switches.cover]
    /\ pc' = "check_icons"
    /\ UNCHANGED <<argv, groups, exc, exitStatus, fsOut, iconVars, splitVars, orderVars>>

CheckIcons ==
    /\ pc = "check_icons"
    /\ IF flags.icons = None
       THEN Exit(EX_DATAERR)
       ELSE pc' = "check_template" /\ UNCHANGED exitStatus
    /\ UNCHANGED <<argv, flags, groups, exc, fsOut, iconVars, splitVars, orderVars>>

CheckTemplate ==
    /\ pc = "check_template"
    /\ IF flags.template = None
       THEN Exit(EX_DATAERR)
       ELSE pc' = "get_icons" /\ UNCHANGED exitStatus
    /\ UNCHANGED <<argv, flags, groups, exc, fsOut, iconVars, splitVars, orderVars>>

MainGetIcons ==
    /\ pc = "get_icons"
    /\ files' = argv.tree
    /\ result_dir' = dirname(flags.result)
    /\ LET r == get_icons(files', result_dir')
       IN  IF r.raised
           THEN Unhandled /\ UNCHANGED icons
           ELSE icons' = r.icons /\ pc' = "get_groups" /\ UNCHANGED <<exc, exitStatus>>
    /\ UNCHANGED <<argv, flags, groups, fsOut, gi_i, gi_pc, splitVars, orderVars>>

MainGetGroups ==
    /\ pc = "get_groups"
    /\ groups' = get_groups(flags)
    /\ pc' = "get_template"
    /\ UNCHANGED <<argv, flags, exc, exitStatus, fsOut, iconVars, splitVars, orderVars>>

\* env.get_template reads and compiles the template and may raise
MainGetTemplate ==
    /\ pc = "get_template"
    /\ \E ok \in BOOLEAN :
          IF ok THEN pc' = "makedirs" /\ UNCHANGED <<exc, exitStatus>>
                ELSE Unhandled
    /\ UNCHANGED <<argv, flags, groups, fsOut, iconVars, splitVars, orderVars>>

MainMakedirs ==
    /\ pc = "makedirs"
    /\ \E ok \in BOOLEAN :
          IF ok
          THEN /\ fsOut' = [fsOut EXCEPT !.makedirs = TRUE]
               /\ pc' = "write"
               /\ UNCHANGED <<exc, exitStatus>>
          ELSE Caught /\ UNCHANGED fsOut
    /\ UNCHANGED <<argv, flags, groups, iconVars, splitVars, orderVars>>

\* open(result, 'wt'), template.render(...), fp.write(...), sys.exit(EX_OK)
MainWrite ==
    /\ pc = "write"
    /\ \E outcome \in {"open_raises", "render_raises", "write_raises", "ok"} :
          CASE outcome = "open_raises" -> Caught /\ UNCHANGED fsOut
            [] outcome \in {"render_raises", "write_raises"} ->
                  Caught /\ fsOut' = [fsOut EXCEPT !.file = "truncated"]
            [] outcome = "ok" ->
                  /\ fsOut' = [fsOut EXCEPT !.file = "written"]
                  /\ Exit(EX_OK)
                  /\ UNCHANGED exc
    /\ UNCHANGED <<argv, flags, groups, iconVars, splitVars, orderVars>>

InitMain ==
    /\ \E ex \in SUBSET {IconsPath, TemplatePath}, sw \in Switches :
          \E tr \in (IF IconsPath \in ex THEN MainTrees ELSE {<<>>}) :
              argv = [icons |-> IconsPath, template |-> TemplatePath,
                      result |-> ResultPath, switches |-> sw,
                      existing |-> ex, tree |-> tr]
    /\ flags = None /\ groups = None /\ pc = "parse_args"
    /\ exc = "none" /\ exitStatus = -1
    /\ fsOut = [makedirs |-> FALSE, file |-> "untouched"]
    /\ IdleIcons /\ IdleSplit /\ IdleOrder

NextMain ==
    \/ ParseArgs \/ CheckIcons \/ CheckTemplate \/ MainGetIcons
    \/ MainGetGroups \/ MainGetTemplate \/ MainMakedirs \/ MainWrite

SpecMain == InitMain /\ [][NextMain]_vars

(***************************************************************************)
(* split_by                                                                *)
(***************************************************************************)
MinI(a, b) == IF a <= b THEN a ELSE b

\* Variant that gives nothing when fewer than n items are left.
islice_full_only(entries, pos, n) ==
    IF pos + n <= Len(entries) THEN SubSeq(entries, pos + 1, pos + n) ELSE <<>>

\* list(itertools.islice(items, n)) with the iterator at position pos
islice(entries, pos, n) ==
    SubSeq(entries, pos + 1, MinI(pos + n, Len(entries)))

\* items = iter(entries); piece = list(islice(items, length))
SplitByStart ==
    /\ sb_pc = "start"
    /\ sb_piece' = islice(sb_entries, sb_pos, sb_length)
    /\ sb_pos' = sb_pos + Len(sb_piece')
    /\ sb_pc' = "loop"
    /\ UNCHANGED <<sb_entries, sb_length, sb_out, iconVars, mainVars, orderVars>>

\* while piece: yield piece; piece = list(islice(items, length))
SplitByYield ==
    /\ sb_pc = "loop"
    /\ sb_piece # <<>>
    /\ sb_out' = Append(sb_out, sb_piece)
    /\ sb_piece' = islice(sb_entries, sb_pos, sb_length)
    /\ sb_pos' = sb_pos + Len(sb_piece')
    /\ UNCHANGED <<sb_entries, sb_length, sb_pc, iconVars, mainVars, orderVars>>

\* the while condition is false: the generator is exhausted
SplitByStop ==
    /\ sb_pc = "loop"
    /\ sb_piece = <<>>
    /\ sb_pc' = "done"
    /\ UNCHANGED <<sb_entries, sb_length, sb_pos, sb_piece, sb_out,
                   iconVars, mainVars, orderVars>>

InitSplit ==
    /\ sb_entries \in SeqsUpTo({"p", "q"}, MaxLen)
    /\ sb_length \in (0..MaxChunk) \cup {DEFAULT_ELEMENTS_PER_ROW}
    /\ sb_pos = 0 /\ sb_piece = <<>> /\ sb_out = <<>> /\ sb_pc = "start"
    /\ IdleIcons /\ IdleMain /\ IdleOrder

NextSplit == SplitByStart \/ SplitByYield \/ SplitByStop

\* The template's for loop pulls the generator until it is exhausted.
SpecSplit == InitSplit /\ [][NextSplit]_vars /\ WF_vars(NextSplit)

(***************************************************************************)
(* icon_group_order                                                        *)
(***************************************************************************)
InOrder(a) == \E i \in 1..Len(ICON_GROUP_ORDER) : ICON_GROUP_ORDER[i] = a

\* ICON_GROUP_ORDER.index(a), for a in the list
index(a) == MinOf({i \in 1..Len(ICON_GROUP_ORDER) : ICON_GROUP_ORDER[i] = a})

\* Variant with the two signs exchanged.
cmp_groups_reversed(a, b) ==
    IF ~InOrder(a) \/ ~InOrder(b)
    THEN [raised |-> TRUE, value |-> 0]
    ELSE [raised |-> FALSE,
          value  |-> IF index(a) > index(b) THEN -1
                     ELSE IF index(a) = index(b) THEN 0 ELSE 1]

\* cmp_groups(a, b): list.index raises ValueError for a name not in the list
cmp_groups(a, b) ==
    IF ~InOrder(a) \/ ~InOrder(b)
    THEN [raised |-> TRUE, value |-> 0]
    ELSE [raised |-> FALSE,
          value  |-> IF index(a) > index(b) THEN 1
                     ELSE IF index(a) = index(b) THEN 0 ELSE -1]

\* list.sort(key=cmp_to_key(cmp_groups)): the keys are compared with <,
\* which is cmp_groups(a, b) < 0; a list of fewer than two items is not
\* compared at all.  An item is placed after the items that are not greater
\* (the sort is stable); an exception in a comparison ends the sort.
RECURSIVE sort_place(_, _, _)
sort_place(sorted, x, j) ==
    IF j = 0
    THEN [raised |-> FALSE, items |-> <<x>> \o sorted]
    ELSE LET c == cmp_groups(x, sorted[j])
         IN  IF c.raised THEN [raised |-> TRUE, items |-> sorted]
             ELSE IF c.value < 0 THEN sort_place(sorted, x, j - 1)
             ELSE [raised |-> FALSE,
                   items  |-> SubSeq(sorted, 1, j) \o <<x>>
                              \o SubSeq(sorted, j + 1, Len(sorted))]

RECURSIVE list_sort(_)
list_sort(items) ==
    IF Len(items) <= 1
    THEN [raised |-> FALSE, items |-> items]
    ELSE LET r == list_sort(SubSeq(items, 1, Len(items) - 1))
         IN  IF r.raised THEN r
             ELSE sort_place(r.items, items[Len(items)], Len(r.items))

\* items.sort(...); return items
icon_group_order(items) == list_sort(items)

OrderGroups ==
    /\ og_pc = "call"
    /\ og_result' = icon_group_order(og_items)
    /\ og_pc' = "done"
    /\ UNCHANGED <<og_items, iconVars, mainVars, splitVars>>

InitOrder ==
    /\ og_items \in SeqsUpTo({"small", "medium", "large", "cover",
                              "notification", "unknown"}, MaxGroups)
    /\ og_result = None /\ og_pc = "call"
    /\ IdleIcons /\ IdleMain /\ IdleSplit

NextOrder == OrderGroups

SpecOrder == InitOrder /\ [][NextOrder]_vars

(***************************************************************************)
(* Properties of get_icons                                                 *)
(***************************************************************************)
\* a file name with the extension .svg in any letter case, and its base name
SvgName(fn) ==
    /\ Len(fn) >= 4
    /\ fn[Len(fn) - 3] = "."
    /\ fn[Len(fn) - 2] \in {"s", "S"}
    /\ fn[Len(fn) - 1] \in {"v", "V"}
    /\ fn[Len(fn)] \in {"g", "G"}
BaseOf(fn) == SubSeq(fn, 1, Len(fn) - 4)
HasDash(s) == \E i \in 1..Len(s) : s[i] = "-"
StartsWith(s, prefix) ==
    Len(s) >= Len(prefix) /\ SubSeq(s, 1, Len(prefix)) = prefix

\* the text between the first "-" and the next "-" (or the end)
TokenAfterFirstDash(s) ==
    LET i    == MinOf({k \in 1..Len(s) : s[k] = "-"})
        rest == SubSeq(s, i + 1, Len(s))
        ends == {k \in 1..Len(rest) : rest[k] = "-"}
        j    == IF ends = {} THEN Len(rest) + 1 ELSE MinOf(ends)
    IN  SubSeq(rest, 1, j - 1)

GroupOfToken(t) ==
    CASE t = <<"l">> -> "large"
      [] t = <<"s">> -> "small"
      [] t = <<"m">> -> "medium"
      [] t = <<"c", "o", "v", "e", "r">> -> "cover"
      [] t = <<"l", "o", "c", "k">> -> "notification"
      [] OTHER -> "unknown"

\* the records of the index, as (group, position) pairs
SlotsOf(d, rel) ==
    {sl \in {<<g, j>> \in (DOMAIN d) \X (1..Len(files)) : j <= Len(d[g])} :
        d[sl[1]][sl[2]].relpath = rel}
RelOf(f) == relpath(path_join(f.root, f.filename), result_dir)
Count(seq, x) == Cardinality({j \in 1..Len(seq) : seq[j] = x})

\* C1 (as claimed): a scanned .svg file whose base name has no "-" never
\* makes get_icons raise, and once visited it is filed under "unknown".
C1_NoDelimiterIsUnknown ==
    \A k \in 1..Len(files) :
        (SvgName(files[k].filename) /\ ~HasDash(BaseOf(files[k].filename))) =>
            /\ ~(gi_pc = "raised" /\ k = gi_i + 1)
            /\ k <= gi_i =>
                  /\ "unknown" \in DOMAIN icons
                  /\ \E j \in 1..Len(icons["unknown"]) :
                        icons["unknown"][j].relpath = RelOf(files[k])

\* C5 (as claimed): the group of a record is the table's value for the token
\* after the first "-", and every prefix-s*.svg, prefix-m*.svg, prefix-l*.svg,
\* prefix-cover*.svg, prefix-lock*.svg is small, medium, large, cover,
\* notification.
GlobGroups ==
    << <<(<<"a", "-", "s">>), "small">>,
       <<(<<"a", "-", "m">>), "medium">>,
       <<(<<"a", "-", "l">>), "large">>,
       <<(<<"a", "-", "c", "o", "v", "e", "r">>), "cover">>,
       <<(<<"a", "-", "l", "o", "c", "k">>), "notification">> >>

C5_GlobForms ==
    (gi_i = 1) =>
        LET fn == files[1].filename
        IN  /\ \A g \in DOMAIN icons : \A j \in 1..Len(icons[g]) :
                  icons[g][j].group = GroupOfToken(TokenAfterFirstDash(icons[g][j].name))
            /\ \A n \in 1..Len(GlobGroups) :
                  (StartsWith(fn, GlobGroups[n][1]) /\ endswith(fn, Ext_svg)) =>
                      /\ GlobGroups[n][2] \in DOMAIN icons
                      /\ Len(icons[GlobGroups[n][2]]) = 1

\* C5 (amended): for a .svg file whose base name contains a "-", the
\* classifier does not raise and files one record whose group is the table's
\* value for the whole token between the first "-" and the next "-" (or the
\* end of the base name); a token that is not exactly l, s, m, cover or lock
\* gives unknown.
C5_TokenDecidesGroup ==
    LET fn == files[1].filename
    IN  (gi_pc \in {"loop", "returned", "raised"} /\ Len(files) = 1
            /\ SvgName(fn) /\ HasDash(BaseOf(fn))) =>
            /\ gi_pc # "raised"
            /\ gi_i = 1 =>
                  LET g == GroupOfToken(TokenAfterFirstDash(BaseOf(fn)))
                  IN  /\ DOMAIN icons = {g}
                      /\ Len(icons[g]) = 1
                      /\ icons[g][1].name = BaseOf(fn)
                      /\ icons[g][1].group = g

\* C5 witness: a-s-x.svg, whose token s is followed by more text, has been
\* filed under small.
C5_Witness ==
    /\ gi_pc = "returned"
    /\ Len(files) = 1
    /\ files[1].filename = <<"a", "-", "s", "-", "x">> \o Ext_svg
    /\ DOMAIN icons = {"small"}

\* C7 (as claimed): get_icons ends by returning an index in which every
\* .svg file (any letter case) has exactly one record, under its group, a
\* file of another kind has none, and the records are as many as the .svg
\* files.
C7_OneRecordPerSvg ==
    (gi_pc \in {"returned", "raised"}) =>
        /\ gi_pc = "returned"
        /\ \A k \in 1..Len(files) :
              IF SvgName(files[k].filename)
              THEN /\ Cardinality(SlotsOf(icons, RelOf(files[k]))) = 1
                   /\ \A sl \in SlotsOf(icons, RelOf(files[k])) :
                         icons[sl[1]][sl[2]].group = sl[1]
              ELSE SlotsOf(icons, RelOf(files[k])) = {}

\* the per-group lists as collected by the loops, before the final sort
Collected == walk_from(EmptyDict, files, 0, result_dir).icons

PosIn(seq, x) == MinOf({j \in 1..Len(seq) : seq[j] = x})

\* C8: in the returned index every group's list is ascending by name, is a
\* permutation of the records collected for the group (duplicates kept), and
\* records of equal name keep their order of discovery.
C8_SortedStable ==
    (gi_pc = "returned") =>
        /\ DOMAIN icons = DOMAIN Collected
        /\ \A g \in DOMAIN icons :
              /\ \A i, j \in 1..Len(icons[g]) :
                    i < j => ~StrLess(icons[g][j].name, icons[g][i].name)
              /\ Len(icons[g]) = Len(Collected[g])
              /\ \A j \in 1..Len(icons[g]) :
                    Count(icons[g], icons[g][j]) = Count(Collected[g], icons[g][j])
              /\ \A i, j \in 1..Len(icons[g]) :
                    (i < j /\ icons[g][i].name = icons[g][j].name) =>
                        PosIn(Collected[g], icons[g][i]) < PosIn(Collected[g], icons[g][j])

\* C8 witness: a returned group of three records that the sort reordered and
\* that holds two records of one name.
C8_Witness ==
    /\ gi_pc = "returned"
    /\ \E g \in DOMAIN icons :
          /\ Len(icons[g]) = 3
          /\ icons[g] # Collected[g]
          /\ \E i \in 1..2 : icons[g][i].name = icons[g][i + 1].name

(***************************************************************************)
(* Properties of get_groups and main                                       *)
(***************************************************************************)
AfterGetGroups == pc \in {"get_template", "makedirs", "write"}
NoSwitch ==
    ~argv.switches.small /\ ~argv.switches.medium
        /\ ~argv.switches.large /\ ~argv.switches.cover

\* C2 (as claimed): with no flag set get_groups returns
\* [small, medium, large, cover, notification].
C2_DefaultIsCanonical ==
    (AfterGetGroups /\ NoSwitch) =>
        groups = <<"small", "medium", "large", "cover", "notification">>

\* C2 (amended): with no flag set get_groups returns the five categories
\* once each in the order of the values of ICON_GROUP_MARKS:
\* [large, small, medium, cover, notification].
C2_DefaultIsTableOrder ==
    (AfterGetGroups /\ NoSwitch) =>
        groups = <<"large", "small", "medium", "cover", "notification">>

\* C2 witness: get_groups has run on a command line without flags.
C2_Witness == pc = "get_template" /\ NoSwitch /\ Len(groups) = 5

\* C3 (as claimed): a run that passed the path checks and met an exception
\* ends with the exception caught and exit status 1, never unhandled.
C3_ExceptionsCaught ==
    (pc = "exit" /\ exc # "none") => (exc = "caught" /\ exitStatus = 1)

\* C4: when the icons path or the template path does not exist the run stops
\* at the path checks: nothing is indexed, the output directory is not
\* created, no output file is opened, and the exit status is EX_DATAERR.
C4_MissingPathStopsEarly ==
    (argv.existing # {IconsPath, TemplatePath}) =>
        /\ pc \in {"parse_args", "check_icons", "check_template", "exit"}
        /\ fsOut = [makedirs |-> FALSE, file |-> "untouched"]
        /\ icons = EmptyDict /\ groups = None
        /\ pc = "exit" => (exitStatus = 65 /\ exc = "none")

\* C4 witness: the icons path exists, the template path does not, and the
\* run has ended at the second check.
C4_Witness ==
    /\ pc = "exit"
    /\ argv.existing = {IconsPath}
    /\ argv.tree # <<>>
    /\ exitStatus = 65

SwitchOrder == <<"small", "medium", "large", "cover">>
SwitchPos(g) == CHOOSE i \in 1..4 : SwitchOrder[i] = g

\* C6: with at least one flag set get_groups returns the flagged categories,
\* once each, in the order small, medium, large, cover, and the index built
\* by get_icons is what it was.
C6_FlaggedInOrder ==
    (AfterGetGroups /\ ~NoSwitch) =>
        /\ \A i \in 1..Len(groups) : groups[i] \in {"small", "medium", "large", "cover"}
        /\ {groups[i] : i \in 1..Len(groups)}
              = {g \in {"small", "medium", "large", "cover"} : argv.switches[g]}
        /\ \A i, j \in 1..Len(groups) :
              i < j => SwitchPos(groups[i]) < SwitchPos(groups[j])
        /\ icons = get_icons(argv.tree, <<"/", "o">>).icons

\* C6 witness: --small --large on a tree that holds all five categories.
C6_Witness ==
    /\ pc = "get_template"
    /\ argv.switches = [small |-> TRUE, medium |-> FALSE, large |-> TRUE, cover |-> FALSE]
    /\ groups = <<"small", "large">>
    /\ {"medium", "cover", "notification"} \subseteq DOMAIN icons

(***************************************************************************)
(* Properties of split_by                                                  *)
(***************************************************************************)
RECURSIVE Concat(_)
Concat(chunks) ==
    IF Len(chunks) = 0 THEN <<>> ELSE chunks[1] \o Concat(Tail(chunks))

ChunksRight ==
    (sb_pc = "done" /\ sb_length >= 1) =>
        /\ Len(sb_out) = (Len(sb_entries) + sb_length - 1) \div sb_length
        /\ \A i \in 1..Len(sb_out) :
              /\ Len(sb_out[i]) >= 1
              /\ Len(sb_out[i]) <= sb_length
              /\ i < Len(sb_out) => Len(sb_out[i]) = sb_length
        /\ Concat(sb_out) = sb_entries

\* C9: for a chunk length n >= 1 split_by comes to an end, and it has then
\* yielded ceil(L/n) chunks, all of length n except possibly the last, which
\* is not empty, and the chunks concatenated are the input.
C9_SplitBy ==
    /\ []ChunksRight
    /\ (sb_length >= 1) => <>(sb_pc = "done")

\* C9 witness: four items in rows of three: a full row and a short one.
C9_Witness ==
    /\ sb_pc = "done"
    /\ sb_length = 3
    /\ Len(sb_entries) = 4
    /\ Len(sb_out) = 2
    /\ Len(sb_out[2]) = 1

(***************************************************************************)
(* Properties of icon_group_order                                          *)
(***************************************************************************)
Distinct(seq) == \A i, j \in 1..Len(seq) : i # j => seq[i] # seq[j]
Canonical == {"small", "medium", "large", "cover", "notification"}
CanonPos(g) ==
    CASE g = "small" -> 1 [] g = "medium" -> 2 [] g = "large" -> 3
      [] g = "cover" -> 4 [] g = "notification" -> 5
Elems(seq) == {seq[i] : i \in 1..Len(seq)}

SortsSubsets ==
    (og_pc = "done" /\ Distinct(og_items) /\ Elems(og_items) \subseteq Canonical) =>
        /\ ~og_result.raised
        /\ Len(og_result.items) = Len(og_items)
        /\ Elems(og_result.items) = Elems(og_items)
        /\ \A i, j \in 1..Len(og_result.items) :
              i < j => CanonPos(og_result.items[i]) < CanonPos(og_result.items[j])

\* C10 (as claimed): a permutation of a subset of the five names comes back
\* in the fixed order, and any sequence that holds another name fails.
C10_UnknownAlwaysFails ==
    /\ SortsSubsets
    /\ (og_pc = "done" /\ ~(Elems(og_items) \subseteq Canonical)) => og_result.raised

\* C10 (amended): a permutation of a subset of the five names comes back in
\* the fixed order; a sequence of two or more names that holds another name
\* fails with the lookup error; a sequence of one name comes back as it is,
\* whatever the name, because nothing is compared.
C10_UnknownFailsWhenCompared ==
    /\ SortsSubsets
    /\ (og_pc = "done" /\ ~(Elems(og_items) \subseteq Canonical) /\ Len(og_items) >= 2)
          => og_result.raised
    /\ (og_pc = "done" /\ Len(og_items) = 1)
          => (~og_result.raised /\ og_result.items = og_items)

\* C10 witness: three names given in reverse come back in the fixed order.
C10_Witness ==
    /\ og_pc = "done"
    /\ og_items = <<"notification", "large", "small">>
    /\ ~og_result.raised
    /\ og_result.items = <<"small", "large", "notification">>

====
